---------------------------- MODULE Spec2Model ----------------------------
(***************************************************************************)
(* Inventory dashboard (src/app.py): a Streamlit script over one MongoDB   *)
(* collection.  Every user interaction reruns the script and executes the  *)
(* block of the chosen action: Seed sample data, View inventory, Add       *)
(* product, Update product, Delete product.                                *)
(*                                                                         *)
(* State: the collection (documents in natural order), the ObjectId        *)
(* generator, the page the last run rendered, the store calls that run     *)
(* issued and the exported file on the server.                             *)
(*                                                                         *)
(* Texts are sequences of one-character strings, so that int(), float(),   *)
(* fromisoformat(), isoformat(), str(ObjectId) and ObjectId(text) are      *)
(* computed character by character.  Numbers are integers: the model       *)
(* covers integer-valued floats and NaN; "int" and "float" keep the type.  *)
(***************************************************************************)
EXTENDS Integers, Sequences, FiniteSets, TLC

VARIABLES store, next_oid, page, view, calls, server_csv, writes

vars == <<store, next_oid, page, view, calls, server_csv, writes>>

-----------------------------------------------------------------------------
(* Bounds of the model *)

\* mutating runs (seed, add, update, delete) in one behaviour
MaxWrites == 2
\* documents of a collection written by other clients (PipeSpec)
MaxDocs == 2

-----------------------------------------------------------------------------
(* Values held by documents and data frame cells *)

Val(t, n, s) == [t |-> t, n |-> n, s |-> s]

Null == Val("null", 0, <<>>)
NaN == Val("nan", 0, <<>>)
NaT == Val("nat", 0, <<>>)
IntV(n) == Val("int", n, <<>>)
FloatV(n) == Val("float", n, <<>>)
StrV(s) == Val("str", 0, s)
OidV(n) == Val("oid", n, <<>>)
\* a Timestamp at midnight, as a day number (days since 1970-01-01)
DateV(n) == Val("date", n, <<>>)

\* pandas isna(): None, NaN and NaT
isna(v) == v.t \in {"null", "nan", "nat"}

Min(a, b) == IF a <= b THEN a ELSE b

RECURSIVE SumSeq(_)
SumSeq(s) == IF s = <<>> THEN 0 ELSE s[1] + SumSeq(Tail(s))

-----------------------------------------------------------------------------
(* Texts *)

DigitChars == <<"0", "1", "2", "3", "4", "5", "6", "7", "8", "9">>
HexChars == DigitChars \o <<"a", "b", "c", "d", "e", "f">>
UpperChars == <<"A", "B", "C", "D", "E", "F", "G", "H", "I", "J", "K", "L", "M",
                "N", "O", "P", "Q", "R", "S", "T", "U", "V", "W", "X", "Y", "Z">>
LowerChars == <<"a", "b", "c", "d", "e", "f", "g", "h", "i", "j", "k", "l", "m",
                "n", "o", "p", "q", "r", "s", "t", "u", "v", "w", "x", "y", "z">>

Range(f) == {f[i] : i \in DOMAIN f}
IndexOf(c, chars) == CHOOSE i \in DOMAIN chars : chars[i] = c

DigitSet == Range(DigitChars)
DigitVal == [c \in DigitSet |-> IndexOf(c, DigitChars) - 1]

IsDigits(s) == Len(s) > 0 /\ \A i \in 1..Len(s) : s[i] \in DigitSet

\* the number written by the first n characters of a digit string
RECURSIVE NatOfPrefix(_, _)
NatOfPrefix(s, n) == IF n = 0 THEN 0 ELSE NatOfPrefix(s, n - 1) * 10 + DigitVal[s[n]]
NatOf(s) == NatOfPrefix(s, Len(s))

RECURSIVE Pow10(_)
Pow10(k) == IF k = 0 THEN 1 ELSE 10 * Pow10(k - 1)

\* zero-padded decimal of n in w characters
RECURSIVE Digits(_, _)
Digits(n, w) ==
    IF w = 0 THEN <<>>
    ELSE Append(Digits(n \div 10, w - 1), DigitChars[(n % 10) + 1])

\* str.strip(): int() and float() ignore surrounding blanks
RECURSIVE Strip(_)
Strip(s) ==
    IF s # <<>> /\ s[1] = " " THEN Strip(Tail(s))
    ELSE IF s # <<>> /\ s[Len(s)] = " " THEN Strip(SubSeq(s, 1, Len(s) - 1))
    ELSE s

\* an optional sign in front of the rest
SignOf(s) == IF s # <<>> /\ s[1] = "-" THEN -1 ELSE 1
Unsigned(s) == IF s # <<>> /\ s[1] \in {"-", "+"} THEN Tail(s) ELSE s

\* Python int(text): ValueError unless [sign] digits
IntParses(text) == IsDigits(Unsigned(Strip(text)))
IntOf(text) == SignOf(Strip(text)) * NatOf(Unsigned(Strip(text)))

\* Python float(text) on the modelled alphabet: [sign] digits ["e" digits], or nan
ExpAt(s) == IF \E i \in 1..Len(s) : s[i] = "e"
            THEN CHOOSE i \in 1..Len(s) : s[i] = "e" /\ \A j \in 1..(i - 1) : s[j] # "e"
            ELSE 0
Mantissa(s) == IF ExpAt(s) = 0 THEN s ELSE SubSeq(s, 1, ExpAt(s) - 1)
Exponent(s) == IF ExpAt(s) = 0 THEN <<"0">> ELSE SubSeq(s, ExpAt(s) + 1, Len(s))
IsNanText(text) == Unsigned(Strip(text)) = <<"n", "a", "n">>
FloatParses(text) ==
    \/ IsNanText(text)
    \/ /\ IsDigits(Mantissa(Unsigned(Strip(text))))
       /\ IsDigits(Exponent(Unsigned(Strip(text))))
FloatOf(text) ==
    IF IsNanText(text) THEN NaN
    ELSE FloatV(SignOf(Strip(text)) * NatOf(Mantissa(Unsigned(Strip(text))))
                    * Pow10(NatOf(Exponent(Unsigned(Strip(text))))))

\* str.lower(), for the case-insensitive $regex
UpperSet == Range(UpperChars)
LowerMap == [c \in UpperSet |-> LowerChars[IndexOf(c, UpperChars)]]
LowerChar(c) == IF c \in UpperSet THEN LowerMap[c] ELSE c
Lower(s) == [i \in 1..Len(s) |-> LowerChar(s[i])]

\* needle occurs in hay
Contains(hay, needle) ==
    \E i \in 0..(Len(hay) - Len(needle)) : SubSeq(hay, i + 1, i + Len(needle)) = needle


\* characters of the modelled texts in code-point order, for comparing strings
AsciiChars == <<" ", "(", ")", "-">> \o DigitChars \o UpperChars \o LowerChars
CodeOf == [c \in Range(AsciiChars) |-> IndexOf(c, AsciiChars)]
Code(c) == CodeOf[c]

RECURSIVE TextLess(_, _)
TextLess(a, b) ==
    IF b = <<>> THEN FALSE
    ELSE IF a = <<>> THEN TRUE
    ELSE IF a[1] = b[1] THEN TextLess(Tail(a), Tail(b))
    ELSE Code(a[1]) < Code(b[1])

-----------------------------------------------------------------------------
(* Calendar dates: a date is <<year, month, day>> *)

IsLeap(y) == (y % 4 = 0 /\ y % 100 # 0) \/ y % 400 = 0
DaysInMonth(y, m) ==
    IF m = 2 THEN (IF IsLeap(y) THEN 29 ELSE 28)
    ELSE IF m \in {4, 6, 9, 11} THEN 30 ELSE 31

\* days since 1970-01-01 of a proleptic Gregorian date
DayNum(date) ==
    LET y == IF date[2] <= 2 THEN date[1] - 1 ELSE date[1]
        mp == IF date[2] > 2 THEN date[2] - 3 ELSE date[2] + 9
        era == y \div 400
        yoe == y - era * 400
        doy == (153 * mp + 2) \div 5 + date[3] - 1
        doe == yoe * 365 + yoe \div 4 - yoe \div 100 + doy
    IN  era * 146097 + doe - 719468

\* date.isoformat(): YYYY-MM-DD
isoformat(date) == Digits(date[1], 4) \o <<"-">> \o Digits(date[2], 2) \o <<"-">> \o Digits(date[3], 2)

\* datetime.fromisoformat(text).date(): ValueError unless YYYY-MM-DD names a day
IsoFields(text) ==
    <<NatOf(SubSeq(text, 1, 4)), NatOf(SubSeq(text, 6, 7)), NatOf(SubSeq(text, 9, 10))>>
IsoParses(text) ==
    /\ Len(text) = 10
    /\ text[5] = "-" /\ text[8] = "-"
    /\ IsDigits(SubSeq(text, 1, 4)) /\ IsDigits(SubSeq(text, 6, 7)) /\ IsDigits(SubSeq(text, 9, 10))
    /\ IsoFields(text)[1] >= 1
    /\ IsoFields(text)[2] \in 1..12
    /\ IsoFields(text)[3] \in 1..DaysInMonth(IsoFields(text)[1], IsoFields(text)[2])
fromisoformat(text) == IsoFields(text)

-----------------------------------------------------------------------------
(* ObjectId: the generator hands out fresh numbers; str() is 24 hex digits *)

RECURSIVE HexDigits(_, _)
HexDigits(n, w) ==
    IF w = 0 THEN <<>>
    ELSE Append(HexDigits(n \div 16, w - 1), HexChars[(n % 16) + 1])

\* hex digits of either case
HexSet == Range(HexChars) \cup {"A", "B", "C", "D", "E", "F"}
HexVal == [c \in HexSet |-> IndexOf(LowerChar(c), HexChars) - 1]

\* the number written by the first n characters of a hex string
RECURSIVE HexOfPrefix(_, _)
HexOfPrefix(s, n) == IF n = 0 THEN 0 ELSE HexOfPrefix(s, n - 1) * 16 + HexVal[s[n]]

\* str(ObjectId)
OidStr(n) == HexDigits(n, 24)
\* ObjectId(text): InvalidId unless 24 hex digits
OidParses(text) == Len(text) = 24 /\ \A i \in 1..Len(text) : text[i] \in HexSet
ObjectId(text) == HexOfPrefix(text, Len(text))

-----------------------------------------------------------------------------
(* The collection: pymongo calls on coll *)

\* a document is a function from some of these keys to values
Has(doc, k) == k \in DOMAIN doc
With(doc, k, v) == [x \in (DOMAIN doc) \cup {k} |-> IF x = k THEN v ELSE doc[x]]
Without(doc, k) == [x \in (DOMAIN doc) \ {k} |-> doc[x]]

\* {field: {"$regex": search, "$options": "i"}}: only strings match
RegexMatch(doc, field, search) ==
    Has(doc, field) /\ doc[field].t = "str" /\ Contains(Lower(doc[field].s), Lower(search))

\* coll.find(q).limit(n), q = {} or the $or of the three regex matches
find(coll, search, n) ==
    LET Hit(doc) == \/ search = <<>>
                    \/ RegexMatch(doc, "name", search)
                    \/ RegexMatch(doc, "sku", search)
                    \/ RegexMatch(doc, "category", search)
        hits == SelectSeq(coll, Hit)
    IN  SubSeq(hits, 1, Min(n, Len(hits)))

count_documents(coll) == Len(coll)

\* coll.insert_many(docs): each document gets a fresh _id, in order
insert_many(coll, docs, oid) ==
    coll \o [i \in 1..Len(docs) |-> With(docs[i], "_id", OidV(oid + i - 1))]

\* coll.insert_one(doc)
insert_one(coll, doc, oid) == insert_many(coll, <<doc>>, oid)

\* position of the first document with this _id, 0 if none
Locate(coll, oid) ==
    IF \E i \in 1..Len(coll) : coll[i]["_id"] = OidV(oid)
    THEN CHOOSE i \in 1..Len(coll) :
            coll[i]["_id"] = OidV(oid) /\ \A j \in 1..(i - 1) : coll[j]["_id"] # OidV(oid)
    ELSE 0

\* update_one with upsert=True: an id that matches nothing inserts a document
update_one_upsert(coll, oid, field, value) ==
    LET i == Locate(coll, oid)
    IN  IF i = 0
        THEN [coll |-> Append(coll, With([k \in {"_id"} |-> OidV(oid)], field, value)),
              matched_count |-> 0, modified_count |-> 0]
        ELSE [coll |-> [coll EXCEPT ![i] = With(coll[i], field, value)],
              matched_count |-> 1,
              modified_count |-> IF Has(coll[i], field) /\ coll[i][field] = value THEN 0 ELSE 1]

\* update_one without '$set': the document is replaced by the one field
update_one_replace(coll, oid, field, value) ==
    LET i == Locate(coll, oid)
        doc == With([k \in {"_id"} |-> OidV(oid)], field, value)
    IN  IF i = 0 THEN [coll |-> coll, matched_count |-> 0, modified_count |-> 0]
        ELSE [coll |-> [coll EXCEPT ![i] = doc],
              matched_count |-> 1,
              modified_count |-> IF coll[i] = doc THEN 0 ELSE 1]

\* coll.update_one({'_id': oid}, {'$set': {field: value}})
update_one(coll, oid, field, value) ==
    LET i == Locate(coll, oid)
    IN  IF i = 0 THEN [coll |-> coll, matched_count |-> 0, modified_count |-> 0]
        ELSE [coll |-> [coll EXCEPT ![i] = With(coll[i], field, value)],
              matched_count |-> 1,
              modified_count |-> IF Has(coll[i], field) /\ coll[i][field] = value THEN 0 ELSE 1]

\* coll.delete_one({'_id': oid})
delete_one(coll, oid) ==
    LET i == Locate(coll, oid)
    IN  IF i = 0 THEN [coll |-> coll, deleted_count |-> 0]
        ELSE [coll |-> SubSeq(coll, 1, i - 1) \o SubSeq(coll, i + 1, Len(coll)),
              deleted_count |-> 1]

-----------------------------------------------------------------------------
(* Data frames: a set of column names and a sequence of rows over them.    *)
(* A row keeps its position in the frame as its index label.               *)

EmptyFrame == [columns |-> {}, rows |-> <<>>]

\* df.empty
empty(df) == df.columns = {} \/ df.rows = <<>>

\* raw_docs_to_df: '_id' becomes 'id' = str(_id); a key a document lacks is NaN
IdDoc(d) == IF Has(d, "_id") THEN With(Without(d, "_id"), "id", StrV(OidStr(d["_id"].n))) ELSE d
raw_docs_to_df(docs) ==
    IF docs = <<>> THEN EmptyFrame
    ELSE LET clean == [i \in 1..Len(docs) |-> IdDoc(docs[i])]
             cols == UNION {DOMAIN clean[i] : i \in 1..Len(clean)}
         IN  [columns |-> cols,
              rows |-> [i \in 1..Len(clean) |->
                          [c \in cols |-> IF Has(clean[i], c) THEN clean[i][c] ELSE NaN]]]

\* pd.to_numeric(errors='coerce') on one cell: a number, or NaN
to_numeric(v) ==
    CASE v.t \in {"int", "float"} -> FloatV(v.n)
      [] v.t = "str" -> (IF FloatParses(v.s) THEN FloatOf(v.s) ELSE NaN)
      [] OTHER -> NaN

\* Series.fillna(x) on one cell
fillna(v, x) == IF isna(v) THEN x ELSE v

\* pd.to_datetime(errors='coerce') on one cell (strings and missing values)
to_datetime(v) ==
    CASE v.t = "str" -> (IF IsoParses(v.s) THEN DateV(DayNum(fromisoformat(v.s))) ELSE NaT)
      [] v.t \in {"null", "nan", "nat"} -> NaT
      [] v.t = "date" -> v

Unknown == <<"U", "n", "k", "n", "o", "w", "n">>

\* df.get(col, pd.Series()).fillna(x), assigned back to df[col]: the default is an
\* empty Series, whose assignment aligns on the index and leaves every row NaN
get_fillna(df, row, col, x) ==
    IF col \in df.columns THEN fillna(row[col], x) ELSE NaN

\* days since restock with the unknown dates filled with 0 instead of -1
days_since_zero(today, ts) ==
    LET days == IF ts.t = "date" THEN FloatV(DayNum(today) - ts.n) ELSE NaN
    IN  IntV(fillna(days, IntV(0)).n)

\* (today - last_restock).dt.days, then fillna(-1).astype(int)
days_since(today, ts) ==
    LET days == IF ts.t = "date" THEN FloatV(DayNum(today) - ts.n) ELSE NaN
    IN  IntV(fillna(days, IntV(-1)).n)

\* the columns clean_and_transform assigns
quantity_of(df, row) ==
    IF "quantity" \in df.columns
    THEN IntV(fillna(to_numeric(row["quantity"]), IntV(0)).n)
    ELSE IntV(0)
price_of(df, row) ==
    IF "price" \in df.columns
    THEN FloatV(fillna(to_numeric(row["price"]), FloatV(0)).n)
    ELSE FloatV(0)
last_restock_of(df, row) ==
    IF "last_restock" \in df.columns THEN to_datetime(row["last_restock"]) ELSE NaT

CleanColumns == {"quantity", "price", "last_restock", "name", "sku", "value", "days_since_restock"}

clean_row(df, row, today) ==
    LET quantity == quantity_of(df, row)
        price == price_of(df, row)
        last_restock == last_restock_of(df, row)
    IN  [c \in df.columns \cup CleanColumns |->
            CASE c = "quantity" -> quantity
              [] c = "price" -> price
              [] c = "last_restock" -> last_restock
              [] c = "name" -> get_fillna(df, row, "name", StrV(Unknown))
              [] c = "sku" -> get_fillna(df, row, "sku", StrV(<<>>))
              [] c = "value" -> FloatV(quantity.n * price.n)
              [] c = "days_since_restock" -> days_since(today, last_restock)
              [] OTHER -> row[c]]

clean_and_transform(df, today) ==
    IF empty(df) THEN df
    ELSE [columns |-> df.columns \cup CleanColumns,
          rows |-> [i \in 1..Len(df.rows) |-> clean_row(df, df.rows[i], today)]]

-----------------------------------------------------------------------------
(* Aggregates of the View inventory block *)

\* the group keys of df.groupby('category'): missing keys are dropped (dropna=True)
GroupKeys(df) == {df.rows[i]["category"] : i \in {j \in 1..Len(df.rows) : ~isna(df.rows[j]["category"])}}

\* a set of string values in ascending order (groupby sorts its keys)
RECURSIVE SortedKeys(_)
SortedKeys(K) ==
    IF K = {} THEN <<>>
    ELSE LET k == CHOOSE x \in K : \A y \in K \ {x} : TextLess(x.s, y.s)
         IN  <<k>> \o SortedKeys(K \ {k})

ColumnSum(df, col, I) ==
    LET RECURSIVE Sum(_)
        Sum(J) == IF J = {} THEN 0
                  ELSE LET j == CHOOSE x \in J : TRUE IN df.rows[j][col].n + Sum(J \ {j})
    IN  Sum(I)

\* df.groupby('category').agg(total_qty=('quantity','sum'), total_value=('value','sum'))
cat_agg(df) ==
    LET keys == SortedKeys(GroupKeys(df))
        Members(k) == {i \in 1..Len(df.rows) : df.rows[i]["category"] = k}
    IN  [g \in 1..Len(keys) |->
            [category |-> keys[g],
             total_qty |-> ColumnSum(df, "quantity", Members(keys[g])),
             total_value |-> ColumnSum(df, "value", Members(keys[g]))]]

\* frame.sort_values(by, ascending).head(n), as index labels.  sort_values uses
\* quicksort, which is not stable: rows of equal key come out in any order, so the
\* call has a set of possible results.
RECURSIVE sort_values_head(_, _, _, _, _)
sort_values_head(df, I, by, ascending, n) ==
    IF n = 0 \/ I = {} THEN {<<>>}
    ELSE LET first == {i \in I : \A j \in I :
                          IF ascending THEN df.rows[i][by].n <= df.rows[j][by].n
                          ELSE df.rows[i][by].n >= df.rows[j][by].n}
         IN  UNION {{<<i>> \o r : r \in sort_values_head(df, I \ {i}, by, ascending, n - 1)}
                    : i \in first}

TopN == 10
LowLimit == 20
FetchLimit == 2000

\* df.sort_values('value', ascending=False).head(10)
top_by_value(df) == sort_values_head(df, 1..Len(df.rows), "value", FALSE, TopN)

\* the low-stock selection with a strict comparison
low_strict(df, low_stock_thresh) ==
    sort_values_head(df, {i \in 1..Len(df.rows) : df.rows[i]["quantity"].n < low_stock_thresh},
                     "quantity", TRUE, LowLimit)

\* df[df['quantity'] <= low_stock_thresh].sort_values('quantity').head(20)
low(df, low_stock_thresh) ==
    sort_values_head(df, {i \in 1..Len(df.rows) : df.rows[i]["quantity"].n <= low_stock_thresh},
                     "quantity", TRUE, LowLimit)

\* the columns shown and exported, among those the frame has
display_cols(df) ==
    {"sku", "name", "category", "quantity", "price", "value", "supplier",
     "last_restock", "days_since_restock", "id"} \cap df.columns

-----------------------------------------------------------------------------
(* Sample data (20 items) *)

SAMPLE_PRODUCTS == <<
    [sku |-> StrV(<<"S", "K", "U", "1", "0", "0", "1">>),
     name |-> StrV(<<"C", "l", "a", "s", "s", "i", "c", " ", "T", "-", "S", "h", "i", "r", "t">>),
     category |-> StrV(<<"A", "p", "p", "a", "r", "e", "l">>),
     quantity |-> IntV(120), price |-> FloatV(399),
     supplier |-> StrV(<<"T", "e", "x", "t", "i", "l", "e", " ", "C", "o">>),
     last_restock |-> StrV(<<"2", "0", "2", "5", "-", "1", "0", "-", "0", "1">>)],
    [sku |-> StrV(<<"S", "K", "U", "1", "0", "0", "2">>),
     name |-> StrV(<<"S", "l", "i", "m", " ", "J", "e", "a", "n", "s">>),
     category |-> StrV(<<"A", "p", "p", "a", "r", "e", "l">>),
     quantity |-> IntV(45), price |-> FloatV(1299),
     supplier |-> StrV(<<"D", "e", "n", "i", "m", " ", "I", "n", "c">>),
     last_restock |-> StrV(<<"2", "0", "2", "5", "-", "0", "9", "-", "1", "5">>)],
    [sku |-> StrV(<<"S", "K", "U", "1", "0", "0", "3">>),
     name |-> StrV(<<"R", "u", "n", "n", "i", "n", "g", " ", "S", "h", "o", "e", "s">>),
     category |-> StrV(<<"F", "o", "o", "t", "w", "e", "a", "r">>),
     quantity |-> IntV(60), price |-> FloatV(2199),
     supplier |-> StrV(<<"R", "u", "n", "F", "a", "s", "t">>),
     last_restock |-> StrV(<<"2", "0", "2", "5", "-", "1", "0", "-", "2", "0">>)],
    [sku |-> StrV(<<"S", "K", "U", "1", "0", "0", "4">>),
     name |-> StrV(<<"F", "o", "r", "m", "a", "l", " ", "S", "h", "o", "e", "s">>),
     category |-> StrV(<<"F", "o", "o", "t", "w", "e", "a", "r">>),
     quantity |-> IntV(25), price |-> FloatV(2499),
     supplier |-> StrV(<<"L", "e", "a", "t", "h", "e", "r", "W", "o", "r", "k", "s">>),
     last_restock |-> StrV(<<"2", "0", "2", "5", "-", "0", "8", "-", "3", "0">>)],
    [sku |-> StrV(<<"S", "K", "U", "1", "0", "0", "5">>),
     name |-> StrV(<<"B", "a", "s", "e", "b", "a", "l", "l", " ", "C", "a", "p">>),
     category |-> StrV(<<"A", "c", "c", "e", "s", "s", "o", "r", "i", "e", "s">>),
     quantity |-> IntV(200), price |-> FloatV(199),
     supplier |-> StrV(<<"C", "a", "p", "M", "a", "k", "e", "r", "s">>),
     last_restock |-> StrV(<<"2", "0", "2", "5", "-", "1", "1", "-", "0", "1">>)],
    [sku |-> StrV(<<"S", "K", "U", "1", "0", "0", "6">>),
     name |-> StrV(<<"W", "r", "i", "s", "t", " ", "W", "a", "t", "c", "h">>),
     category |-> StrV(<<"A", "c", "c", "e", "s", "s", "o", "r", "i", "e", "s">>),
     quantity |-> IntV(30), price |-> FloatV(3499),
     supplier |-> StrV(<<"T", "i", "m", "e", "K", "e", "e", "p">>),
     last_restock |-> StrV(<<"2", "0", "2", "5", "-", "0", "7", "-", "1", "0">>)],
    [sku |-> StrV(<<"S", "K", "U", "1", "0", "0", "7">>),
     name |-> StrV(<<"L", "e", "a", "t", "h", "e", "r", " ", "B", "e", "l", "t">>),
     category |-> StrV(<<"A", "c", "c", "e", "s", "s", "o", "r", "i", "e", "s">>),
     quantity |-> IntV(80), price |-> FloatV(499),
     supplier |-> StrV(<<"B", "e", "l", "t", "C", "o">>),
     last_restock |-> StrV(<<"2", "0", "2", "5", "-", "1", "0", "-", "0", "5">>)],
    [sku |-> StrV(<<"S", "K", "U", "1", "0", "0", "8">>),
     name |-> StrV(<<"H", "o", "o", "d", "i", "e">>),
     category |-> StrV(<<"A", "p", "p", "a", "r", "e", "l">>),
     quantity |-> IntV(70), price |-> FloatV(999),
     supplier |-> StrV(<<"W", "a", "r", "m", "W", "e", "a", "r">>),
     last_restock |-> StrV(<<"2", "0", "2", "5", "-", "0", "9", "-", "2", "5">>)],
    [sku |-> StrV(<<"S", "K", "U", "1", "0", "0", "9">>),
     name |-> StrV(<<"S", "o", "c", "k", "s", " ", "(", "P", "a", "c", "k", " ", "o", "f", " ", "3", ")">>),
     category |-> StrV(<<"A", "p", "p", "a", "r", "e", "l">>),
     quantity |-> IntV(300), price |-> FloatV(249),
     supplier |-> StrV(<<"S", "o", "c", "k", "H", "o", "u", "s", "e">>),
     last_restock |-> StrV(<<"2", "0", "2", "5", "-", "1", "0", "-", "1", "1">>)],
    [sku |-> StrV(<<"S", "K", "U", "1", "0", "1", "0">>),
     name |-> StrV(<<"B", "a", "c", "k", "p", "a", "c", "k">>),
     category |-> StrV(<<"B", "a", "g", "s">>),
     quantity |-> IntV(40), price |-> FloatV(1599),
     supplier |-> StrV(<<"B", "a", "g", "W", "o", "r", "l", "d">>),
     last_restock |-> StrV(<<"2", "0", "2", "5", "-", "0", "9", "-", "0", "1">>)],
    [sku |-> StrV(<<"S", "K", "U", "1", "0", "1", "1">>),
     name |-> StrV(<<"L", "a", "p", "t", "o", "p", " ", "S", "l", "e", "e", "v", "e">>),
     category |-> StrV(<<"B", "a", "g", "s">>),
     quantity |-> IntV(75), price |-> FloatV(699),
     supplier |-> StrV(<<"C", "a", "s", "e", "W", "o", "r", "k", "s">>),
     last_restock |-> StrV(<<"2", "0", "2", "5", "-", "0", "8", "-", "2", "0">>)],
    [sku |-> StrV(<<"S", "K", "U", "1", "0", "1", "2">>),
     name |-> StrV(<<"W", "a", "t", "e", "r", " ", "B", "o", "t", "t", "l", "e">>),
     category |-> StrV(<<"H", "o", "m", "e">>),
     quantity |-> IntV(150), price |-> FloatV(299),
     supplier |-> StrV(<<"H", "y", "d", "r", "o", "L", "t", "d">>),
     last_restock |-> StrV(<<"2", "0", "2", "5", "-", "1", "0", "-", "1", "8">>)],
    [sku |-> StrV(<<"S", "K", "U", "1", "0", "1", "3">>),
     name |-> StrV(<<"W", "i", "r", "e", "l", "e", "s", "s", " ", "E", "a", "r", "b", "u", "d", "s">>),
     category |-> StrV(<<"E", "l", "e", "c", "t", "r", "o", "n", "i", "c", "s">>),
     quantity |-> IntV(55), price |-> FloatV(3299),
     supplier |-> StrV(<<"S", "o", "u", "n", "d", "T", "e", "c", "h">>),
     last_restock |-> StrV(<<"2", "0", "2", "5", "-", "1", "1", "-", "0", "2">>)],
    [sku |-> StrV(<<"S", "K", "U", "1", "0", "1", "4">>),
     name |-> StrV(<<"P", "h", "o", "n", "e", " ", "C", "h", "a", "r", "g", "e", "r">>),
     category |-> StrV(<<"E", "l", "e", "c", "t", "r", "o", "n", "i", "c", "s">>),
     quantity |-> IntV(180), price |-> FloatV(399),
     supplier |-> StrV(<<"C", "h", "a", "r", "g", "e", "I", "t">>),
     last_restock |-> StrV(<<"2", "0", "2", "5", "-", "1", "0", "-", "2", "8">>)],
    [sku |-> StrV(<<"S", "K", "U", "1", "0", "1", "5">>),
     name |-> StrV(<<"N", "o", "t", "e", "b", "o", "o", "k", " ", "A", "4">>),
     category |-> StrV(<<"S", "t", "a", "t", "i", "o", "n", "e", "r", "y">>),
     quantity |-> IntV(500), price |-> FloatV(49),
     supplier |-> StrV(<<"P", "a", "p", "e", "r", "G", "o", "o", "d", "s">>),
     last_restock |-> StrV(<<"2", "0", "2", "5", "-", "0", "9", "-", "1", "0">>)],
    [sku |-> StrV(<<"S", "K", "U", "1", "0", "1", "6">>),
     name |-> StrV(<<"B", "a", "l", "l", "p", "o", "i", "n", "t", " ", "P", "e", "n">>),
     category |-> StrV(<<"S", "t", "a", "t", "i", "o", "n", "e", "r", "y">>),
     quantity |-> IntV(1000), price |-> FloatV(19),
     supplier |-> StrV(<<"W", "r", "i", "t", "e", "W", "e", "l", "l">>),
     last_restock |-> StrV(<<"2", "0", "2", "5", "-", "1", "1", "-", "0", "3">>)],
    [sku |-> StrV(<<"S", "K", "U", "1", "0", "1", "7">>),
     name |-> StrV(<<"D", "e", "s", "k", " ", "L", "a", "m", "p">>),
     category |-> StrV(<<"H", "o", "m", "e">>),
     quantity |-> IntV(35), price |-> FloatV(899),
     supplier |-> StrV(<<"B", "r", "i", "g", "h", "t", "H", "o", "m", "e">>),
     last_restock |-> StrV(<<"2", "0", "2", "5", "-", "0", "8", "-", "2", "7">>)],
    [sku |-> StrV(<<"S", "K", "U", "1", "0", "1", "8">>),
     name |-> StrV(<<"C", "o", "f", "f", "e", "e", " ", "M", "u", "g">>),
     category |-> StrV(<<"H", "o", "m", "e">>),
     quantity |-> IntV(220), price |-> FloatV(249),
     supplier |-> StrV(<<"C", "e", "r", "a", "m", "i", "c", "A", "r", "t">>),
     last_restock |-> StrV(<<"2", "0", "2", "5", "-", "1", "0", "-", "3", "0">>)],
    [sku |-> StrV(<<"S", "K", "U", "1", "0", "1", "9">>),
     name |-> StrV(<<"U", "S", "B", " ", "F", "l", "a", "s", "h", " ", "D", "r", "i", "v", "e", " ", "3", "2", "G", "B">>),
     category |-> StrV(<<"E", "l", "e", "c", "t", "r", "o", "n", "i", "c", "s">>),
     quantity |-> IntV(95), price |-> FloatV(599),
     supplier |-> StrV(<<"S", "t", "o", "r", "a", "g", "e", "P", "l", "u", "s">>),
     last_restock |-> StrV(<<"2", "0", "2", "5", "-", "0", "9", "-", "0", "5">>)],
    [sku |-> StrV(<<"S", "K", "U", "1", "0", "2", "0">>),
     name |-> StrV(<<"T", "r", "a", "v", "e", "l", " ", "A", "d", "a", "p", "t", "e", "r">>),
     category |-> StrV(<<"E", "l", "e", "c", "t", "r", "o", "n", "i", "c", "s">>),
     quantity |-> IntV(60), price |-> FloatV(349),
     supplier |-> StrV(<<"G", "l", "o", "b", "e", "T", "e", "c", "h">>),
     last_restock |-> StrV(<<"2", "0", "2", "5", "-", "1", "0", "-", "1", "2">>)]
>>

\* the copy the seed action inserts: int(quantity), float(price) and the date
\* rewritten by fromisoformat(...).date().isoformat() when it parses
SeedCopy(p) ==
    [p EXCEPT !["quantity"] = IntV(p["quantity"].n),
              !["price"] = FloatV(p["price"].n),
              !["last_restock"] = IF IsoParses(p["last_restock"].s)
                                  THEN StrV(isoformat(fromisoformat(p["last_restock"].s)))
                                  ELSE p["last_restock"]]

-----------------------------------------------------------------------------
(* What a run renders and records *)

\* the alerts of a run: st.success / st.error / st.warning / st.info, with the
\* counts the message reports (-1: the message reports none)
\* and the id, field and value the forms of the run held
NoForm == [id |-> <<>>, field |-> "", new_val |-> <<>>]
Form(id, field, new_val) == [id |-> id, field |-> field, new_val |-> new_val]
Page(action, status, matched, modified, deleted, inserted) ==
    [action |-> action, status |-> status, matched_count |-> matched,
     modified_count |-> modified, deleted_count |-> deleted, inserted |-> inserted,
     form |-> NoForm]
Filled(pg, form) == [pg EXCEPT !.form = form]

NoPage == Page("none", "none", -1, -1, -1, -1)

NoFile == [file_name |-> "", bom |-> FALSE, header |-> {}, nrows |-> 0]

\* dataframe_to_csv_bytes_local: no bytes at all for an empty frame
dataframe_to_csv_bytes_local(df, file_name, include_bom) ==
    IF empty(df) THEN [NoFile EXCEPT !.file_name = file_name]
    ELSE [file_name |-> file_name, bom |-> include_bom,
          header |-> df.columns, nrows |-> Len(df.rows)]

\* df[cols]
project(df, cols) == [columns |-> cols, rows |-> [i \in 1..Len(df.rows) |-> [c \in cols |-> df.rows[i][c]]]]

NoView == [found |-> FALSE, search |-> <<>>, low_stock_thresh |-> 0, button |-> "none",
           today |-> <<1970, 1, 1>>, df |-> EmptyFrame, download |-> NoFile]

-----------------------------------------------------------------------------
(* Inputs of the forms *)

Fields == {"name", "category", "quantity", "price", "supplier", "last_restock", "sku"}

Txt_abc == <<"a", "b", "c">>
Txt_Ink == <<"I", "n", "k">>
Txt_Pen == <<"P", "e", "n">>
Txt_Home == <<"H", "o", "m", "e">>
Txt_a1 == <<"a", "1">>

\* the Add product form: number_input keeps quantity and price >= 0
AddForms ==
    {[sku |-> Txt_a1, name |-> Txt_Pen, category |-> Txt_Home, quantity |-> 0, price |-> 0,
      supplier |-> Txt_abc, last_restock |-> <<2025, 11, 5>>],
     [sku |-> Txt_a1, name |-> Txt_Ink, category |-> <<>>, quantity |-> 7, price |-> 3,
      supplier |-> <<>>, last_restock |-> <<2024, 2, 29>>]}

\* 'New value' texts tried for each field of the update form
NewVals(field) ==
    CASE field = "quantity" -> {<<"7">>, <<"-", "5">>, Txt_abc}
      [] field = "price" -> {<<"1", "e", "1">>, Txt_abc}
      [] field = "last_restock" -> {<<"2", "0", "2", "5", "-", "0", "1", "-", "1", "5">>,
                                    <<"2", "0", "2", "5", "-", "1", "3", "-", "4", "5">>}
      [] field = "name" -> {Txt_Ink}
      [] field = "category" -> {<<>>}
      [] field = "supplier" -> {Txt_abc}
      [] field = "sku" -> {Txt_a1}

\* ids pasted into the id boxes: nothing, not an ObjectId, an ObjectId the
\* generator never hands out, and the id of the document in the middle
StoredIds == IF store = <<>> THEN {} ELSE {OidStr(store[(Len(store) + 1) \div 2]["_id"].n)}
StrayIds == {<<>>, <<"x", "y", "z">>, OidStr(0)}
IdTexts == StrayIds \cup StoredIds

\* what the update form holds when it is submitted: every field and value with a
\* stored id, and the quantity and last_restock values with the other ids
UpdateForms ==
    {Form(id, field, new_val) : id \in StoredIds,
                                field \in Fields, new_val \in UNION {NewVals(f) : f \in Fields}}
        \cup {Form(id, field, new_val) : id \in StrayIds, field \in {"quantity", "last_restock"},
                                         new_val \in NewVals("quantity") \cup NewVals("last_restock")}

\* runs of View inventory: the search box, the threshold, the export button pressed
\* (if any), the day of the run and whether the server file can be written
ViewRun(search, low_stock_thresh, button, today, fs_ok) ==
    [search |-> search, low_stock_thresh |-> low_stock_thresh, button |-> button,
     today |-> today, fs_ok |-> fs_ok]
Txt_HO == <<"H", "O">>
ViewRuns ==
    {ViewRun(<<>>, 30, "none", <<2025, 11, 5>>, TRUE),
     ViewRun(<<>>, 1000, "none", <<2025, 11, 5>>, TRUE),
     ViewRun(Txt_HO, 30, "prepare", <<2025, 10, 15>>, TRUE),
     ViewRun(<<>>, 30, "download", <<2025, 10, 15>>, TRUE),
     ViewRun(<<>>, 1000, "save", <<2025, 11, 5>>, TRUE),
     ViewRun(Txt_HO, 1000, "save", <<2025, 10, 15>>, FALSE)}

-----------------------------------------------------------------------------
(* Actions: one run of the script with the chosen action *)

\* the seeding without the test of the collection's count: every press inserts
Seed_always(force) ==
    LET to_insert == [i \in 1..Len(SAMPLE_PRODUCTS) |-> SeedCopy(SAMPLE_PRODUCTS[i])]
    IN  /\ view' = NoView
        /\ UNCHANGED server_csv
        /\ writes < MaxWrites
        /\ store' = insert_many(store, to_insert, next_oid)
        /\ next_oid' = next_oid + Len(to_insert)
        /\ writes' = writes + 1
        /\ page' = Page("seed", "success", -1, -1, -1, Len(to_insert))
        /\ calls' = <<"count_documents", "insert_many">>

\* Seed sample data, with the button pressed
Seed(force) ==
    LET existing == count_documents(store)
        to_insert == [i \in 1..Len(SAMPLE_PRODUCTS) |-> SeedCopy(SAMPLE_PRODUCTS[i])]
    IN  /\ view' = NoView
        /\ UNCHANGED server_csv
        /\ IF existing > 0 /\ ~force
           THEN /\ page' = Page("seed", "warning", -1, -1, -1, -1)
                /\ calls' = <<"count_documents">>
                /\ UNCHANGED <<store, next_oid, writes>>
           ELSE /\ writes < MaxWrites
                /\ store' = insert_many(store, to_insert, next_oid)
                /\ next_oid' = next_oid + Len(to_insert)
                /\ writes' = writes + 1
                /\ page' = Page("seed", "success", -1, -1, -1, Len(to_insert))
                /\ calls' = <<"count_documents", "insert_many">>

\* Add product, with the form submitted
Add(form) ==
    LET doc == [sku |-> StrV(form.sku), name |-> StrV(form.name),
                category |-> StrV(form.category),
                quantity |-> IntV(form.quantity), price |-> FloatV(form.price),
                supplier |-> StrV(form.supplier),
                last_restock |-> StrV(isoformat(form.last_restock))]
    IN  /\ writes < MaxWrites
        /\ store' = insert_one(store, doc, next_oid)
        /\ next_oid' = next_oid + 1
        /\ writes' = writes + 1
        /\ page' = Page("add", "success", -1, -1, -1, 1)
        /\ calls' = <<"insert_one">>
        /\ view' = NoView
        /\ UNCHANGED server_csv

\* the conversion with the quantity handled as last_restock is: kept as typed
\* when it does not parse
Converted_lenient(field, new_val) ==
    CASE field = "quantity" ->
            [ok |-> TRUE,
             value |-> IF IntParses(new_val) THEN IntV(IntOf(new_val)) ELSE StrV(new_val)]
      [] field = "price" ->
            [ok |-> FloatParses(new_val),
             value |-> IF FloatParses(new_val) THEN FloatOf(new_val) ELSE Null]
      [] field = "last_restock" ->
            [ok |-> TRUE,
             value |-> IF IsoParses(new_val) THEN StrV(isoformat(fromisoformat(new_val)))
                       ELSE StrV(new_val)]
      [] OTHER -> [ok |-> TRUE, value |-> StrV(new_val)]

\* the value the update form sends for a field: int() for quantity, float() for
\* price, the ISO date for last_restock when it parses and the text as typed when
\* it does not; "ok" is FALSE where int() or float() raises ValueError
Converted(field, new_val) ==
    CASE field = "quantity" ->
            [ok |-> IntParses(new_val),
             value |-> IF IntParses(new_val) THEN IntV(IntOf(new_val)) ELSE Null]
      [] field = "price" ->
            [ok |-> FloatParses(new_val),
             value |-> IF FloatParses(new_val) THEN FloatOf(new_val) ELSE Null]
      [] field = "last_restock" ->
            [ok |-> TRUE,
             value |-> IF IsoParses(new_val) THEN StrV(isoformat(fromisoformat(new_val)))
                       ELSE StrV(new_val)]
      [] OTHER -> [ok |-> TRUE, value |-> StrV(new_val)]

\* Update product, 'Load product' pressed: find_one and show the document
LoadProduct(prod_id) ==
    /\ prod_id # <<>>
    /\ IF ~OidParses(prod_id)
       THEN /\ page' = Filled(Page("load", "error", -1, -1, -1, -1), Form(prod_id, "", <<>>))
            /\ calls' = <<>>
       ELSE \E oid \in {ObjectId(prod_id)} :
                /\ page' = Filled(Page("load", IF Locate(store, oid) = 0 THEN "info" ELSE "json",
                                       -1, -1, -1, -1), Form(prod_id, "", <<>>))
                /\ calls' = <<"find_one">>
    /\ view' = NoView
    /\ UNCHANGED <<store, next_oid, server_csv, writes>>

\* Update product, 'Apply update' submitted
Update(prod_id, field, new_val) ==
    /\ view' = NoView
    /\ UNCHANGED <<next_oid, server_csv>>
    /\ IF prod_id = <<>> \/ ~Converted(field, new_val).ok \/ ~OidParses(prod_id)
       THEN /\ page' = Filled(Page("update", "error", -1, -1, -1, -1),
                               Form(prod_id, field, new_val))
            /\ calls' = <<>>
            /\ UNCHANGED <<store, writes>>
       ELSE \E oid \in {ObjectId(prod_id)} :
            \E res \in {update_one(store, oid, field, Converted(field, new_val).value)} :
                /\ res.coll # store => writes < MaxWrites
                /\ store' = res.coll
                /\ writes' = IF res.coll # store THEN writes + 1 ELSE writes
                /\ page' = Filled(Page("update", "success", res.matched_count,
                                       res.modified_count, -1, -1),
                                  Form(prod_id, field, new_val))
                /\ calls' = <<"update_one">>

\* Delete product, with the button pressed; nothing runs while the id box is empty
Delete(del_id) ==
    /\ view' = NoView
    /\ UNCHANGED <<next_oid, server_csv>>
    /\ IF del_id = <<>>
       THEN /\ page' = Page("delete", "none", -1, -1, -1, -1)
            /\ calls' = <<>>
            /\ UNCHANGED <<store, writes>>
       ELSE IF ~OidParses(del_id)
       THEN /\ page' = Filled(Page("delete", "error", -1, -1, -1, -1), Form(del_id, "", <<>>))
            /\ calls' = <<>>
            /\ UNCHANGED <<store, writes>>
       ELSE \E oid \in {ObjectId(del_id)} :
            \E res \in {delete_one(store, oid)} :
                /\ res.coll # store => writes < MaxWrites
                /\ store' = res.coll
                /\ writes' = IF res.coll # store THEN writes + 1 ELSE writes
                /\ page' = Filled(Page("delete", "success", -1, -1, res.deleted_count, -1),
                                  Form(del_id, "", <<>>))
                /\ calls' = <<"delete_one">>

\* View inventory: fetch, clean, show, export.  "button" is the export button
\* pressed in this run, if any; "fs_ok" whether writing the server file succeeds.
\* The script ends with a KeyError when the low-stock table is not empty and the
\* frame has no supplier column.
Render(search, low_stock_thresh, button, today, fs_ok) ==
    \E df_raw \in {raw_docs_to_df(find(store, search, FetchLimit))} :
    \E df \in {clean_and_transform(df_raw, today)} :
    \E df_all \in {clean_and_transform(raw_docs_to_df(find(store, <<>>, Len(store))), today)} :
        LET keyerror == /\ "supplier" \notin df.columns
                        /\ \E i \in 1..Len(df.rows) : df.rows[i]["quantity"].n <= low_stock_thresh
        IN  /\ view' = [found |-> ~empty(df_raw), search |-> search,
                        low_stock_thresh |-> low_stock_thresh, button |-> button,
                        today |-> today, df |-> df,
                        download |->
                            IF empty(df_raw) THEN NoFile
                            ELSE IF button = "prepare"
                            THEN dataframe_to_csv_bytes_local(project(df, display_cols(df)),
                                                              "inventory_filtered_cleaned.csv", TRUE)
                            ELSE IF button = "download"
                            THEN dataframe_to_csv_bytes_local(df_all, "inventory_full_cleaned.csv", TRUE)
                            ELSE NoFile]
            /\ server_csv' = IF button = "save" /\ ~empty(df_raw) /\ fs_ok
                             THEN [file_name |-> "exports/inventory_export.csv", bom |-> FALSE,
                                   header |-> df_all.columns, nrows |-> Len(df_all.rows)]
                             ELSE server_csv
            /\ page' = IF empty(df_raw) THEN Page("view", "info", -1, -1, -1, -1)
                       ELSE IF keyerror THEN Page("view", "exception", -1, -1, -1, -1)
                       ELSE IF button = "save"
                       THEN Page("view", IF fs_ok THEN "success" ELSE "error", -1, -1, -1, -1)
                       ELSE Page("view", "shown", -1, -1, -1, -1)
            /\ calls' = IF button \in {"download", "save"} /\ ~empty(df_raw)
                        THEN <<"find", "find">> ELSE <<"find">>

\* a view that saves the 'id' text raw_docs_to_df adds back into the documents
View_writeback(search, low_stock_thresh, button, today, fs_ok) ==
    /\ Render(search, low_stock_thresh, button, today, fs_ok)
    /\ store' = [i \in 1..Len(store) |->
                    With(store[i], "id", StrV(OidStr(store[i]["_id"].n)))]
    /\ UNCHANGED <<next_oid, writes>>

\* the block issues find() calls only: the collection is left as it is
View(search, low_stock_thresh, button, today, fs_ok) ==
    /\ Render(search, low_stock_thresh, button, today, fs_ok)
    /\ UNCHANGED <<store, next_oid, writes>>

-----------------------------------------------------------------------------
(* Specification: the dashboard over a collection that starts empty *)

Init ==
    /\ store = <<>>
    /\ next_oid = 1
    /\ page = NoPage
    /\ view = NoView
    /\ calls = <<>>
    /\ server_csv = NoFile
    /\ writes = 0

DoSeed == \E force \in BOOLEAN : Seed(force)
DoAdd == \E form \in AddForms : Add(form)
DoLoad == \E prod_id \in IdTexts : LoadProduct(prod_id)
DoUpdate == \E form \in UpdateForms :
                /\ form.new_val \in NewVals(form.field)
                /\ Update(form.id, form.field, form.new_val)
DoDelete == \E del_id \in IdTexts : Delete(del_id)
DoView == \E run \in ViewRuns :
             View(run.search, run.low_stock_thresh, run.button, run.today, run.fs_ok)

Next == DoSeed \/ DoAdd \/ DoLoad \/ DoUpdate \/ DoDelete \/ DoView

Spec == Init /\ [][Next]_vars

-----------------------------------------------------------------------------
(* Specification of the pipeline alone: View inventory over a collection   *)
(* that other clients of the database have written, whose documents may    *)
(* lack fields or hold values of other types.                              *)

Merge(a, b) == [k \in (DOMAIN a) \cup (DOMAIN b) |-> IF k \in DOMAIN a THEN a[k] ELSE b[k]]

Txt_2025_10_01 == <<"2", "0", "2", "5", "-", "1", "0", "-", "0", "1">>
Txt_2025_11_20 == <<"2", "0", "2", "5", "-", "1", "1", "-", "2", "0">>
Txt_2025_13_45 == <<"2", "0", "2", "5", "-", "1", "3", "-", "4", "5">>

\* quantity, price and last_restock of a raw document
NumericParts ==
    {<<>>,
     [quantity |-> IntV(5), price |-> FloatV(2), last_restock |-> StrV(Txt_2025_10_01)],
     [quantity |-> IntV(-3), price |-> FloatV(-2), last_restock |-> StrV(Txt_abc)],
     [quantity |-> StrV(<<"5">>), price |-> StrV(<<"1", "e", "1">>), last_restock |-> Null],
     [quantity |-> StrV(Txt_abc), price |-> NaN, last_restock |-> StrV(Txt_2025_13_45)],
     [quantity |-> Null, price |-> Null, last_restock |-> StrV(Txt_2025_11_20)]}

\* name, sku, category and supplier of a raw document
TextParts ==
    {<<>>,
     [name |-> StrV(Txt_Pen), sku |-> StrV(Txt_a1), category |-> StrV(Txt_Home),
      supplier |-> StrV(Txt_abc)],
     [name |-> Null, sku |-> Null, category |-> Null, supplier |-> Null],
     [name |-> StrV(Txt_Ink), sku |-> StrV(Txt_a1), category |-> StrV(<<>>),
      supplier |-> StrV(Txt_abc)],
     [name |-> StrV(Txt_Ink), category |-> StrV(Txt_Home)]}

RawDocs == {Merge(n, t) : n \in NumericParts, t \in TextParts}

RECURSIVE SeqsUpTo(_, _)
SeqsUpTo(S, n) ==
    IF n = 0 THEN {<<>>}
    ELSE SeqsUpTo(S, n - 1) \cup {Append(q, x) : q \in {r \in SeqsUpTo(S, n - 1) : Len(r) = n - 1}, x \in S}

InitPipe ==
    /\ \E docs \in SeqsUpTo(RawDocs, MaxDocs) :
          /\ store = insert_many(<<>>, docs, 1)
          /\ next_oid = Len(docs) + 1
    /\ page = NoPage
    /\ view = NoView
    /\ calls = <<>>
    /\ server_csv = NoFile
    /\ writes = 0

NextPipe == DoView

PipeSpec == InitPipe /\ [][NextPipe]_vars

-----------------------------------------------------------------------------
(* Properties *)

\* the rows of the table on the page, and the documents they were fetched from
Rows == 1..Len(view.df.rows)
Cell(i, c) == view.df.rows[i][c]
Raw == find(store, view.search, FetchLimit)

\* a document lacks the field, or holds None or NaN there
Absent(doc, k) == ~Has(doc, k) \/ isna(doc[k])

\* C1: every row output by clean_and_transform has quantity >= 0 and price >= 0
C1_NonNegative ==
    view.found => \A i \in Rows : Cell(i, "quantity").n >= 0 /\ Cell(i, "price").n >= 0

\* C2: every row output by clean_and_transform has a name and a sku; a record
\* without a name gets "Unknown" and a record without a sku gets the empty string,
\* also when no record of the batch has the field
C2_NameSkuFilled ==
    view.found =>
        \A i \in Rows :
            /\ ~isna(Cell(i, "name"))
            /\ ~isna(Cell(i, "sku"))
            /\ Absent(Raw[i], "name") => Cell(i, "name") = StrV(Unknown)
            /\ Absent(Raw[i], "sku") => Cell(i, "sku") = StrV(<<>>)

\* C3: the category rollup conserves totals: the groups' total_qty add up to the
\* quantity of all rows and their total_value to the value of all rows, rows with
\* a missing category included
C3_RollupConserves ==
    (view.found /\ "category" \in view.df.columns) =>
        LET agg == cat_agg(view.df)
        IN  /\ SumSeq([g \in 1..Len(agg) |-> agg[g].total_qty])
                  = ColumnSum(view.df, "quantity", Rows)
            /\ SumSeq([g \in 1..Len(agg) |-> agg[g].total_value])
                  = ColumnSum(view.df, "value", Rows)

\* the rows at or under the threshold
LowRows == {i \in Rows : Cell(i, "quantity").n <= view.low_stock_thresh}

\* C4 as stated: the low-stock selection holds exactly the rows with
\* quantity <= threshold, sorted ascending by quantity
C4_LowExact ==
    view.found =>
        \A r \in low(view.df, view.low_stock_thresh) :
            /\ Range(r) = LowRows
            /\ \A k, l \in 1..Len(r) : k < l => Cell(r[k], "quantity").n <= Cell(r[l], "quantity").n

\* C4 amended: the low-stock selection holds only rows with quantity <= threshold,
\* each once, sorted ascending by quantity; it holds all of them when they are at
\* most 20, and otherwise 20 of them, none with a larger quantity than a row left out
C4_LowFirst20 ==
    view.found =>
        \A r \in low(view.df, view.low_stock_thresh) :
            /\ Len(r) = Min(LowLimit, Cardinality(LowRows))
            /\ Range(r) \subseteq LowRows
            /\ \A k, l \in 1..Len(r) :
                  k < l => /\ r[k] # r[l]
                           /\ Cell(r[k], "quantity").n <= Cell(r[l], "quantity").n
            /\ \A j \in LowRows \ Range(r) :
                  \A k \in 1..Len(r) : Cell(r[k], "quantity").n <= Cell(j, "quantity").n

\* C4 witness: a table with more than 20 rows at or under the threshold
C4_Witness == view.found /\ Cardinality(LowRows) > LowLimit

\* rows by value descending, equal values in fetch order, the first n of them
RECURSIVE StableTop(_, _)
StableTop(I, n) ==
    IF n = 0 \/ I = {} THEN <<>>
    ELSE LET i == CHOOSE x \in I : \A y \in I \ {x} :
                     \/ Cell(x, "value").n > Cell(y, "value").n
                     \/ Cell(x, "value").n = Cell(y, "value").n /\ x < y
         IN  <<i>> \o StableTop(I \ {i}, n - 1)

UnknownRestock(doc) ==
    \/ Absent(doc, "last_restock")
    \/ doc["last_restock"].t = "str" /\ ~IsoParses(doc["last_restock"].s)

\* C6: every row whose last_restock is absent or unparseable has
\* days_since_restock = -1 after clean_and_transform
C6_Sentinel ==
    view.found =>
        \A i \in Rows : UnknownRestock(Raw[i]) => Cell(i, "days_since_restock") = IntV(-1)

\* C6 witness: a table with a row of unknown last_restock next to a row whose
\* day count is computed
C6_Witness ==
    /\ view.found
    /\ \E i \in Rows : UnknownRestock(Raw[i]) /\ Cell(i, "days_since_restock") = IntV(-1)
    /\ \E j \in Rows : ~UnknownRestock(Raw[j])
                        /\ Cell(j, "days_since_restock").n
                              = DayNum(view.today) - DayNum(fromisoformat(Raw[j]["last_restock"].s))

\* the id typed matches no document of the collection
NoMatch(text, coll) == ~OidParses(text) \/ Locate(coll, ObjectId(text)) = 0

\* the run just made was an update (a delete) of the form on the new page
Updated == page'.action = "update"
Deleted == page'.action = "delete"

\* the page reports a count of zero and no error
ReportsZero(pg) ==
    /\ pg.status = "success"
    /\ pg.action = "update" => pg.matched_count = 0 /\ pg.modified_count = 0
    /\ pg.action = "delete" => pg.deleted_count = 0

\* C7 as stated: an update or delete whose id matches no stored record raises no
\* exception, reports a count of 0 and leaves every stored record unchanged
C7_UnmatchedReportsZero ==
    [][(Updated \/ Deleted) /\ NoMatch(page'.form.id, store)
          => ReportsZero(page') /\ store' = store]_vars

\* C7 amended: an update or delete whose id is a well-formed ObjectId matching no
\* stored record (for an update: with a value that converts for its field) reports
\* a count of 0 and no error; an id that is empty or no ObjectId is answered with
\* an error or nothing, not a count; either way every stored record is unchanged
C7_UnmatchedUnchanged ==
    [][(Updated \/ Deleted) /\ NoMatch(page'.form.id, store)
          => /\ store' = store
             /\ IF /\ OidParses(page'.form.id)
                   /\ Updated => Converted(page'.form.field, page'.form.new_val).ok
                THEN ReportsZero(page')
                ELSE page'.status \in {"error", "none"}]_vars

\* C7 witness: an update with a well-formed id that matched none of the stored records
C7_Witness ==
    /\ page.action = "update" /\ page.status = "success" /\ page.matched_count = 0
    /\ OidParses(page.form.id)
    /\ store # <<>>

\* the value typed does not parse as the type of the field
Malformed(field, new_val) ==
    \/ field = "quantity" /\ ~IntParses(new_val)
    \/ field = "price" /\ ~FloatParses(new_val)
    \/ field = "last_restock" /\ ~IsoParses(new_val)

\* C8 as stated: a malformed quantity, price or last_restock is answered with an
\* error before any write: no update_one call, the store unchanged
C8_MalformedRejected ==
    [][Updated /\ Malformed(page'.form.field, page'.form.new_val)
          => /\ page'.status = "error"
             /\ "update_one" \notin Range(calls')
             /\ store' = store]_vars

\* C8 amended: a malformed quantity or price is answered with an error before any
\* write (no update_one call, the store unchanged); a last_restock that is no ISO
\* date is not rejected: with a well-formed id, update_one is called with the text
\* as typed, which a matching record then holds
C8_NumbersRejected ==
    [][Updated /\ Malformed(page'.form.field, page'.form.new_val)
          => IF page'.form.field \in {"quantity", "price"}
             THEN /\ page'.status = "error"
                  /\ "update_one" \notin Range(calls')
                  /\ store' = store
             ELSE OidParses(page'.form.id)
                    => /\ page'.status = "success"
                       /\ calls' = <<"update_one">>
                       /\ \A i \in 1..Len(store) :
                             store[i]["_id"] = OidV(ObjectId(page'.form.id))
                                => store'[i]["last_restock"] = StrV(page'.form.new_val)]_vars

\* C8 witness: a malformed quantity sent for a stored record was answered with an error
C8_Witness ==
    /\ page.action = "update" /\ page.status = "error"
    /\ page.form.field = "quantity" /\ Malformed("quantity", page.form.new_val)
    /\ ~NoMatch(page.form.id, store)

\* C9: a run of View inventory, whatever export button is pressed, leaves the
\* store with the same records and field values, and calls nothing but find
C9_ViewReadOnly ==
    [][page'.action = "view" => store' = store /\ Range(calls') = {"find"}]_vars

\* C9 witness: a view of a stored table that saved the full export on the server
C9_Witness ==
    /\ page.action = "view" /\ view.found /\ view.button = "save"
    /\ server_csv.nrows = Len(store)

\* the _id values of a collection, in order
IdsOf(coll) == [i \in 1..Len(coll) |-> coll[i]["_id"].n]
Drop(q, k) == SubSeq(q, 1, k - 1) \o SubSeq(q, k + 1, Len(q))

\* C10: an update that matches changes the chosen field of the record with the
\* given id and nothing else: its id and other fields, every other record and the
\* number of records are unchanged, and it counts as modified exactly when the
\* field changed; in any run the ids of the records that stay are unchanged, in
\* their order, and new records get fresh ids
C10_UpdateOneField ==
    [][/\ (Updated /\ page'.status = "success" /\ page'.matched_count = 1)
            => LET i == Locate(store, ObjectId(page'.form.id))
                   field == page'.form.field
               IN  /\ i # 0
                   /\ Len(store') = Len(store)
                   /\ \A j \in 1..Len(store) : j # i => store'[j] = store[j]
                   /\ DOMAIN store'[i] = (DOMAIN store[i]) \cup {field}
                   /\ \A k \in (DOMAIN store[i]) \ {field} : store'[i][k] = store[i][k]
                   /\ store'[i][field] = Converted(field, page'.form.new_val).value
                   /\ page'.modified_count = (IF store'[i] = store[i] THEN 0 ELSE 1)
       /\ \E k \in 0..Len(store) :
            LET kept == IF k = 0 THEN IdsOf(store) ELSE Drop(IdsOf(store), k)
            IN  /\ Len(store') >= Len(kept)
                /\ SubSeq(IdsOf(store'), 1, Len(kept)) = kept
                /\ \A j \in (Len(kept) + 1)..Len(store') : store'[j]["_id"].n >= next_oid
      ]_vars

\* C10 witness: an update that modified one of several stored records
C10_Witness ==
    /\ page.action = "update" /\ page.status = "success"
    /\ page.matched_count = 1 /\ page.modified_count = 1
    /\ Len(store) >= 2

\* how many documents of the collection carry this sku
CountSku(coll, sku) ==
    Cardinality({i \in 1..Len(coll) : Has(coll[i], "sku") /\ coll[i]["sku"] = sku})

\* the collection grew by the 20 sample products, in their order, under ids no
\* document had, and every document it held is unchanged
GrewBySamples(old, new) ==
    /\ Len(new) = Len(old) + 20
    /\ SubSeq(new, 1, Len(old)) = old
    /\ \A i \in 1..20 :
          LET doc == new[Len(old) + i]
              p == SAMPLE_PRODUCTS[i]
          IN  /\ \A k \in {"sku", "name", "category", "supplier", "last_restock"} :
                    doc[k] = p[k]
              /\ doc["quantity"].n = p["quantity"].n
              /\ doc["price"].n = p["price"].n
              /\ \A j \in 1..Len(new) : j # Len(old) + i => new[j]["_id"] # doc["_id"]
    /\ \A i \in 1..20 :
          CountSku(new, SAMPLE_PRODUCTS[i]["sku"]) = CountSku(old, SAMPLE_PRODUCTS[i]["sku"]) + 1

\* C11: a run of Seed sample data on a collection that is not empty, with force
\* off, leaves the store unchanged; on an empty collection, or with force
\* checked, the record count grows by exactly 20, the new records being the
\* sample products and every existing record unchanged, so that a forced seeding
\* after a seeding leaves every sample sku twice
C11_SeedOnlyIfEmptyOrForce ==
    [][\A force \in BOOLEAN :
          Seed(force) =>
             IF Len(store) > 0 /\ ~force
             THEN store' = store /\ page'.status = "warning"
             ELSE /\ GrewBySamples(store, store')
                  /\ page'.status = "success" /\ page'.inserted = 20]_vars

\* C11 witness: a forced seeding of a seeded collection: 40 records, the first
\* sample sku on two of them
C11_Witness ==
    /\ page.action = "seed" /\ page.status = "success"
    /\ Len(store) = 40
    /\ CountSku(store, SAMPLE_PRODUCTS[1]["sku"]) = 2

=============================================================================
